---- MODULE Spec2Model ----
(***************************************************************************)
(* Tool-dispatch layer of the MCP adapter servers of this repository:      *)
(*   "search" : brave-search-server/src/index.ts                           *)
(*   "read1"  : jina-ai-server, first variant  (unnamed/part_000:1-176)    *)
(*   "read2"  : jina-ai-server, second variant (unnamed/part_000:177-440)  *)
(* A behaviour is one server process.  JavaScript strings are sequences of *)
(* one-character strings, so that startsWith, template literals and        *)
(* JSON.stringify are computed rather than assumed.                        *)
(***************************************************************************)
EXTENDS Integers, Sequences, FiniteSets, TLC

VARIABLES adapter, env, phase, calls, responses

vars == <<adapter, env, phase, calls, responses>>

----------------------------------------------------------------------------
(* Bounds *)

\* number of requests one behaviour delivers to the server
MaxRequests == 2

----------------------------------------------------------------------------
(* JavaScript values *)

Undefined == [t |-> "undefined", s |-> <<>>, n |-> 0]
Null      == [t |-> "null", s |-> <<>>, n |-> 0]
Str(s)    == [t |-> "string", s |-> s, n |-> 0]
Num(n)    == [t |-> "number", s |-> <<>>, n |-> n]

\* String.prototype.startsWith
startsWith(s, p) == Len(s) >= Len(p) /\ SubSeq(s, 1, Len(p)) = p

\* p occurs in s as a contiguous substring (String.prototype.includes)
includes(s, p) ==
  \E i \in 1..(Len(s) + 1) :
     i + Len(p) - 1 <= Len(s) /\ SubSeq(s, i, i + Len(p) - 1) = p

\* a ?? b
\* variant: a || b, which also replaces an empty string
Coalesce_Falsy(a, b) ==
  IF a.t \in {"undefined", "null"} \/ (a.t = "string" /\ a.s = <<>>) THEN b
  ELSE a

Coalesce(a, b) == IF a.t \in {"undefined", "null"} THEN b ELSE a

\* `${v}` for a string, undefined or null
TemplateText(v) ==
  IF v.t = "string" THEN v.s
  ELSE IF v.t = "null" THEN <<"n", "u", "l", "l">>
  ELSE <<"u", "n", "d", "e", "f", "i", "n", "e", "d">>

----------------------------------------------------------------------------
(* Request arguments: request.params.arguments.  kind is typeof/null-ness  *)
(* of the value itself; the other fields are its properties when it is an  *)
(* object (Undefined when the property is absent).                         *)

NoProps == [query |-> Undefined, count |-> Undefined, type |-> Undefined,
            input |-> Undefined]

ArgsOf(kind, props) ==
  [kind |-> kind, query |-> props.query, count |-> props.count,
   type |-> props.type, input |-> props.input]

Obj(props) == ArgsOf("object", props)

----------------------------------------------------------------------------
(* String literals of the source *)

BravePrefix == <<"B", "r", "a", "v", "e", " ", "S", "e", "a", "r", "c", "h", " ", "A", "P", "I", " ", "e", "r", "r", "o", "r", ":", " ">>
JinaPrefix == <<"J", "i", "n", "a", " ", "A", "I", " ", "A", "P", "I", " ", "e", "r", "r", "o", "r", ":", " ">>
HttpScheme == <<"h", "t", "t", "p", ":", "/", "/">>
HttpsScheme == <<"h", "t", "t", "p", "s", ":", "/", "/">>
Http == <<"h", "t", "t", "p">>
SearchPath == <<"/", "w", "e", "b", "/", "s", "e", "a", "r", "c", "h">>
JinaReaderUrl == <<"h", "t", "t", "p", "s", ":", "/", "/", "r", ".", "j", "i", "n", "a", ".", "a", "i", "/">>
LocalPdfUrl == <<"h", "t", "t", "p", "s", ":", "/", "/", "l", "o", "c", "a", "l", "-", "p", "d", "f", "-", "a", "n", "a", "l", "y", "s", "i", "s">>
Read == <<"r", "e", "a", "d">>
PdfContentType == <<"a", "p", "p", "l", "i", "c", "a", "t", "i", "o", "n", "/", "p", "d", "f">>
\* non-ASCII characters are written as their code points
FileNotFoundPrefix == <<"u6587", "u4EF6", "u672A", "u627E", "u5230", "uFF1A">>
InvalidFormatMessage == <<"u65E0", "u6548", "u7684", "A", "P", "I", "u54CD", "u5E94", "u683C", "u5F0F">>
KeyTitle == <<"t", "i", "t", "l", "e">>
KeyUrl == <<"u", "r", "l">>
KeyDescription == <<"d", "e", "s", "c", "r", "i", "p", "t", "i", "o", "n">>

----------------------------------------------------------------------------
(* Argument validators *)

\* typeof args (typeof null is 'object')
TypeofArgs(args) == IF args.kind = "null" THEN "object" ELSE args.kind

\* variant: the query property is not checked
isValidSearchArgs_NoQuery(args) ==
  /\ TypeofArgs(args) = "object"
  /\ args.kind # "null"
  /\ (args.count.t = "undefined" \/ args.count.t = "number")

isValidSearchArgs(args) ==
  /\ TypeofArgs(args) = "object"
  /\ args.kind # "null"
  /\ args.query.t = "string"
  /\ (args.count.t = "undefined" \/ args.count.t = "number")

isValidJinaArgs_v1(args) ==
  /\ TypeofArgs(args) = "object"
  /\ args.kind # "null"
  /\ args.type.t = "string"
  /\ args.type = Str(Read)
  /\ args.input.t = "string"

\* variant: the input's domain is not checked
isValidJinaArgs_v2_AnyInput(args) ==
  /\ TypeofArgs(args) = "object"
  /\ args.kind # "null"
  /\ args.type.t = "string"
  /\ args.type = Str(Read)
  /\ args.input.t = "string"

isValidJinaArgs_v2(args) ==
  /\ TypeofArgs(args) = "object"
  /\ args.kind # "null"
  /\ args.type.t = "string"
  /\ args.type = Str(Read)
  /\ args.input.t = "string"
  /\ \/ startsWith(args.input.s, HttpScheme)
     \/ startsWith(args.input.s, HttpsScheme)
     \/ ~startsWith(args.input.s, Http)

----------------------------------------------------------------------------
(* Schema registry: what each adapter's ListTools handler returns *)

Adapters == {"search", "read1", "read2"}

\* the name the CallTool handler compares request.params.name with
ToolName(a) == IF a = "search" THEN "search" ELSE "process"

\* declared range of the search tool's count parameter
CountMinimum == 1
CountMaximum == 10

SearchTools ==
  << [name |-> "search", properties |-> <<"query", "count">>,
      required |-> <<"query">>, minimum |-> CountMinimum,
      maximum |-> CountMaximum] >>

JinaTools ==
  << [name |-> "process", properties |-> <<"type", "input", "parameters">>,
      required |-> <<"type", "input">>] >>

\* variant: every server lists the read adapter's tool
ListToolsResult_Copied(a) == JinaTools

ListToolsResult(a) == IF a = "search" THEN SearchTools ELSE JinaTools

----------------------------------------------------------------------------
(* JSON.stringify(value, null, 2) for an array of flat objects whose        *)
(* property values are strings or undefined.  The sample strings hold no    *)
(* character that JSON escapes.                                              *)

Spaces(k) == [i \in 1..k |-> " "]

Quoted(s) == <<"\"">> \o s \o <<"\"">>

\* the serialized properties of one object, in insertion order; a property
\* whose value is undefined is left out
RECURSIVE JsonProps(_, _)
JsonProps(props, indent) ==
  IF props = <<>> THEN <<>>
  ELSE LET p    == Head(props)
           rest == JsonProps(Tail(props), indent)
       IN IF p.value.t = "undefined" THEN rest
          ELSE <<Spaces(indent) \o Quoted(p.key) \o <<":", " ">>
                   \o Quoted(p.value.s)>> \o rest

\* parts joined by ",\n"
RECURSIVE JoinLines(_)
JoinLines(parts) ==
  IF parts = <<>> THEN <<>>
  ELSE IF Len(parts) = 1 THEN Head(parts)
  ELSE Head(parts) \o <<",", "\n">> \o JoinLines(Tail(parts))

JsonObject(props, indent) ==
  LET lines == JsonProps(props, indent + 2)
  IN IF lines = <<>> THEN <<"{", "}">>
     ELSE <<"{", "\n">> \o JoinLines(lines) \o <<"\n">> \o Spaces(indent)
            \o <<"}">>

JsonArray(objects) ==
  IF objects = <<>> THEN <<"[", "]">>
  ELSE <<"[", "\n">>
         \o JoinLines([i \in 1..Len(objects) |->
                          Spaces(2) \o JsonObject(objects[i], 2)])
         \o <<"\n", "]">>

----------------------------------------------------------------------------
(* Response construction *)

TextBlock(text) == [type |-> "text", text |-> text]

\* a returned tool result; isError is TRUE iff the object has isError: true
ToolResult(content, isError) ==
  [tag |-> "result", content |-> content, isError |-> isError,
   code |-> "", tools |-> <<>>, message |-> <<>>]

\* an exception leaving the handler; code is the McpError code, or
\* "Uncaught" for any other thrown value
Fault(code) ==
  [tag |-> "fault", content |-> <<>>, isError |-> FALSE, code |-> code,
   tools |-> <<>>, message |-> <<>>]

\* throw new McpError(ErrorCode.<code>, message)
McpError(code, message) == [Fault(code) EXCEPT !.message = message]

\* the characters of a tool name
NameText(name) ==
  IF name = "search" THEN <<"s", "e", "a", "r", "c", "h">> ELSE <<"p", "r", "o", "c", "e", "s", "s">>

\* `Unknown tool: ${request.params.name}`
UnknownToolMessage(name) ==
  <<"U", "n", "k", "n", "o", "w", "n", " ", "t", "o", "o", "l", ":", " ">> \o NameText(name)

InvalidSearchMessage ==
  <<"I", "n", "v", "a", "l", "i", "d", " ", "s", "e", "a", "r", "c", "h", " ", "a", "r", "g", "u", "m", "e", "n", "t", "s">>

InvalidJinaMessage ==
  <<"I", "n", "v", "a", "l", "i", "d", " ", "J", "i", "n", "a", " ", "A", "I", " ", "a", "r", "g", "u", "m", "e", "n", "t", "s">>

ToolsResult(tools) ==
  [tag |-> "tools", content |-> <<>>, isError |-> FALSE, code |-> "",
   tools |-> tools, message |-> <<>>]

\* variant: the records come out in reverse order
MapResults_Reversed(items) ==
  [i \in 1..Len(items) |->
     << [key |-> KeyTitle, value |-> items[Len(items) + 1 - i].title],
        [key |-> KeyUrl, value |-> items[Len(items) + 1 - i].url],
        [key |-> KeyDescription,
         value |-> items[Len(items) + 1 - i].description] >>]

\* response.data.web.results.map(result => ({title, url, description}))
MapResults(items) ==
  [i \in 1..Len(items) |->
     << [key |-> KeyTitle, value |-> items[i].title],
        [key |-> KeyUrl, value |-> items[i].url],
        [key |-> KeyDescription, value |-> items[i].description] >>]

\* error.response?.data?.message
ResponseDataMessage(error) ==
  IF ~error.hasResponse THEN Undefined
  ELSE IF ~error.hasData THEN Undefined
  ELSE error.dataMessage

\* variant: no fallback to error.message
ErrorText_NoFallback(prefix, error) ==
  prefix \o TemplateText(ResponseDataMessage(error))

\* `<prefix>${error.response?.data?.message ?? error.message}`
ErrorText(prefix, error) ==
  prefix \o TemplateText(Coalesce(ResponseDataMessage(error),
                                  Str(error.message)))

ErrorResult(prefix, error) ==
  ToolResult(<<TextBlock(ErrorText(prefix, error))>>, TRUE)

----------------------------------------------------------------------------
(* Sample inputs.  Each set holds the cases the handlers distinguish.      *)

QueryX == <<"x">>

WithQuery(count) == Obj([NoProps EXCEPT !.query = Str(QueryX), !.count = count])

SearchArgSamples ==
  { ArgsOf("undefined", NoProps), ArgsOf("null", NoProps), Obj(NoProps),
    Obj([NoProps EXCEPT !.query = Num(7)]),
    WithQuery(Undefined), WithQuery(Num(0)), WithQuery(Num(1)),
    WithQuery(Num(10)), WithQuery(Num(42)), WithQuery(Str(<<"3">>)) }

\* upstream result items; age is a property the adapter does not forward
Item(title, url, description) ==
  [title |-> title, url |-> url, description |-> description,
   age |-> Str(<<"9">>)]

ItemA == Item(Str(<<"a">>), Str(<<"u">>), Str(<<"d">>))
ItemB == Item(Str(<<"b">>), Str(<<"v">>), Str(<<"e">>))
ItemC == Item(Str(<<"c">>), Str(<<"w">>), Undefined)

ItemLists == { <<>>, <<ItemB, ItemC, ItemA>> }

TransportMessage == <<"E", "T", "O">>
UpstreamMessage  == <<"q", "u", "o", "t", "a">>

AxiosError(hasResponse, dataMessage) ==
  [isAxios |-> TRUE, message |-> TransportMessage,
   hasResponse |-> hasResponse, hasData |-> hasResponse,
   dataMessage |-> dataMessage]

AxiosErrors ==
  { AxiosError(FALSE, Undefined), AxiosError(TRUE, Null),
    AxiosError(TRUE, Str(<<>>)), AxiosError(TRUE, Str(UpstreamMessage)) }

\* a thrown value that axios.isAxiosError rejects
OtherError ==
  [isAxios |-> FALSE, message |-> <<"b", "u", "g">>, hasResponse |-> FALSE,
   hasData |-> FALSE, dataMessage |-> Undefined]

\* how an awaited call settles: kind "response" (fulfilled) or "error"
\* (rejected with error)
NoOutcome ==
  [kind |-> "response", error |-> OtherError, hasResults |-> FALSE,
   items |-> <<>>, data |-> Undefined, contentType |-> Undefined,
   dataType |-> "object", nested |-> Undefined, flat |-> Undefined,
   status |-> <<"2", "0", "0">>]

Rejected(error) == [NoOutcome EXCEPT !.kind = "error", !.error = error]

RejectedOutcomes == {Rejected(e) : e \in AxiosErrors \cup {OtherError}}

\* GET /web/search fulfilled: a body with web.results, or a body without
SearchOutcomes ==
  {[NoOutcome EXCEPT !.hasResults = TRUE, !.items = l] : l \in ItemLists}
    \cup {NoOutcome} \cup RejectedOutcomes

\* one fulfilled and one rejected sample
Found == [NoOutcome EXCEPT !.hasResults = TRUE, !.items = <<ItemB, ItemC, ItemA>>]
Unreachable == Rejected(AxiosError(FALSE, Undefined))

\* the outcomes explored for a search call: all of them for the call
\* without count, the two samples for the calls with a count
SearchOutcomesFor(args) ==
  IF args.count = Undefined THEN SearchOutcomes ELSE {Found, Unreachable}

----------------------------------------------------------------------------
(* State                                                                    *)
(*   adapter   which server this process runs                               *)
(*   env       the API-key environment variable                             *)
(*   phase     "load" -> "serving" | "crashed"                              *)
(*   calls     calls[i] is the i-th request delivered to a handler, with    *)
(*             the handler's position and what it has done so far           *)
(*   responses the handler outcomes, in the order they were produced        *)

\* an outbound HTTP request
NetRequest(method, url, q, count, bodyUrl, bodyText, bodyPdf) ==
  [method |-> method, url |-> url, q |-> q, count |-> count,
   bodyUrl |-> bodyUrl, bodyText |-> bodyText, bodyPdf |-> bodyPdf]

NewCall(kind, name, args, pc, net) ==
  [kind |-> kind, name |-> name, args |-> args, pc |-> pc, net |-> net,
   seen |-> <<>>, fsOps |-> <<>>, isPDF |-> FALSE, textContent |-> <<>>]

\* variant: the newest response is put first
Respond_Prepend(id, r) == <<[id |-> id, r |-> r]>> \o responses

Respond(id, r) == Append(responses, [id |-> id, r |-> r])

NextId == Len(calls) + 1

\* ids of the handlers suspended at an await
Pending == {i \in 1..Len(calls) : calls[i].pc # "done"}

Init ==
  /\ adapter \in Adapters
  /\ env \in {Undefined, Str(<<>>), Str(<<"k">>)}
  /\ phase = "load"
  /\ calls = <<>>
  /\ responses = <<>>

\* variant: the server is started without looking at the key
ModuleLoad_NoKeyCheck ==
  /\ phase = "load"
  /\ phase' = "serving"
  /\ UNCHANGED <<adapter, env, calls, responses>>

\* if (!API_KEY) throw ...; otherwise construct the server and connect it
ModuleLoad ==
  /\ phase = "load"
  /\ phase' = IF env.t = "undefined" \/ env.s = <<>> THEN "crashed"
              ELSE "serving"
  /\ UNCHANGED <<adapter, env, calls, responses>>

\* a message is delivered to its handler as soon as the connected process
\* receives it: the handlers are async functions, and neither they nor
\* run() hold a message back while another handler is suspended
CanReceive == phase = "serving" /\ Len(calls) < MaxRequests

ListTools ==
  /\ CanReceive
  /\ calls' = Append(calls, NewCall("list", "", ArgsOf("undefined", NoProps),
                                    "done", <<>>))
  /\ responses' = Respond(NextId, ToolsResult(ListToolsResult(adapter)))
  /\ UNCHANGED <<adapter, env, phase>>

\* variant: any adapter's tool name passes the name check
IsUnknownTool_AnyAdapter(a, name) == name \notin {"search", "process"}

\* request.params.name !== '<tool>'
IsUnknownTool(a, name) == name # ToolName(a)

\* const { query, count = 5 } = request.params.arguments
DefaultCount == 5

\* variant: the default grows with the requests handled so far
CountOf_Remembered(args) ==
  IF args.count.t = "undefined" THEN DefaultCount + Len(calls)
  ELSE args.count.n

\* variant: a supplied count is clamped to the declared range
CountOf_Clamped(args) ==
  IF args.count.t = "undefined" THEN DefaultCount
  ELSE IF args.count.n < CountMinimum THEN CountMinimum
  ELSE IF args.count.n > CountMaximum THEN CountMaximum
  ELSE args.count.n

CountOf(args) == IF args.count.t = "undefined" THEN DefaultCount
                 ELSE args.count.n

SearchRequest(args) ==
  NetRequest("GET", SearchPath, args.query.s, CountOf(args),
             Undefined, Undefined, Undefined)

\* the handler up to its first await; a throw before it ends the request
\* variant: the arguments are validated before the name is looked up
CallToolSearch_ValidateFirst(name, args) ==
  /\ CanReceive
  /\ adapter = "search"
  /\ IF ~isValidSearchArgs(args)
     THEN /\ calls' = Append(calls, NewCall("call", name, args, "done", <<>>))
          /\ responses' = Respond(NextId, McpError("InvalidParams",
                                                  InvalidSearchMessage))
     ELSE IF IsUnknownTool(adapter, name)
     THEN /\ calls' = Append(calls, NewCall("call", name, args, "done", <<>>))
          /\ responses' = Respond(NextId, McpError("MethodNotFound",
                                                  UnknownToolMessage(name)))
     ELSE /\ calls' = Append(calls, NewCall("call", name, args, "awaitSearch",
                                            <<SearchRequest(args)>>))
          /\ UNCHANGED responses
  /\ UNCHANGED <<adapter, env, phase>>

CallToolSearch(name, args) ==
  /\ CanReceive
  /\ adapter = "search"
  /\ IF IsUnknownTool(adapter, name)
     THEN /\ calls' = Append(calls, NewCall("call", name, args, "done", <<>>))
          /\ responses' = Respond(NextId, McpError("MethodNotFound",
                                                  UnknownToolMessage(name)))
     ELSE IF ~isValidSearchArgs(args)
     THEN /\ calls' = Append(calls, NewCall("call", name, args, "done", <<>>))
          /\ responses' = Respond(NextId, McpError("InvalidParams",
                                                  InvalidSearchMessage))
     ELSE /\ calls' = Append(calls, NewCall("call", name, args, "awaitSearch",
                                            <<SearchRequest(args)>>))
          /\ UNCHANGED responses
  /\ UNCHANGED <<adapter, env, phase>>

\* what the handler returns or throws once the GET has settled
SearchCompletion(outcome) ==
  IF outcome.kind = "response"
  THEN IF outcome.hasResults
       THEN ToolResult(<<TextBlock(JsonArray(MapResults(outcome.items)))>>,
                       FALSE)
       ELSE Fault("Uncaught")
  ELSE IF outcome.error.isAxios
       THEN ErrorResult(BravePrefix, outcome.error)
       ELSE Fault("Uncaught")

\* variant: the handler is not ended by its return
Finish_StaysPending(id, outcome) ==
  [calls EXCEPT ![id].seen = Append(@, outcome)]

Finish(id, outcome) ==
  [calls EXCEPT ![id].pc = "done", ![id].seen = Append(@, outcome)]

SearchSettles(id, outcome) ==
  /\ id \in Pending
  /\ calls[id].pc = "awaitSearch"
  /\ calls' = Finish(id, outcome)
  /\ responses' = Respond(id, SearchCompletion(outcome))
  /\ UNCHANGED <<adapter, env, phase>>

\* the CallTool requests delivered to the search adapter: its own tool with
\* every argument sample, another name with valid and with invalid arguments
SearchRequests ==
  ({"search"} \X SearchArgSamples)
    \cup ({"process"} \X {WithQuery(Num(1)), Obj(NoProps)})

----------------------------------------------------------------------------
(* Read adapter, first variant *)

Page == <<"p", "g">>
UrlHttps == <<"h", "t", "t", "p", "s", ":", "/", "/", "a">>
UrlHttp == <<"h", "t", "t", "p", ":", "/", "/", "a">>
Httpx == <<"h", "t", "t", "p", "x">>
RelPath == <<"f">>

ReadArgs(type, input) == Obj([NoProps EXCEPT !.type = type, !.input = input])

InvalidReadArgSamples ==
  { ArgsOf("undefined", NoProps), ArgsOf("null", NoProps),
    ReadArgs(Str(Read), Undefined), ReadArgs(Undefined, Str(UrlHttps)),
    ReadArgs(Str(<<"w">>), Str(UrlHttps)), ReadArgs(Str(Read), Num(5)) }

ReadArgSamples ==
  InvalidReadArgSamples
    \cup {ReadArgs(Str(Read), Str(i)) : i \in {UrlHttps, UrlHttp, Httpx, RelPath}}

ReadRequests ==
  ({"process"} \X ReadArgSamples)
    \cup ({"search"} \X {ReadArgs(Str(Read), Str(UrlHttps)), Obj(NoProps)})

\* POST https://r.jina.ai/ fulfilled with a text body (first variant)
Read1Outcomes ==
  {[NoOutcome EXCEPT !.data = Str(d), !.dataType = "string"] : d \in {Page, <<>>}}
    \cup RejectedOutcomes

\* the outcomes explored for a call of the first variant: all of them for
\* the https URL, a fulfilled and a rejected sample for the other inputs
Read1OutcomesFor(args) ==
  IF args.input = Str(UrlHttps) THEN Read1Outcomes
  ELSE {[NoOutcome EXCEPT !.data = Str(Page), !.dataType = "string"],
        Unreachable}

Read1Request(args) ==
  NetRequest("POST", JinaReaderUrl, <<>>, 0, args.input, Undefined, Undefined)

CallToolRead1(name, args) ==
  /\ CanReceive
  /\ adapter = "read1"
  /\ IF IsUnknownTool(adapter, name)
     THEN /\ calls' = Append(calls, NewCall("call", name, args, "done", <<>>))
          /\ responses' = Respond(NextId, McpError("MethodNotFound",
                                                  UnknownToolMessage(name)))
     ELSE IF ~isValidJinaArgs_v1(args)
     THEN /\ calls' = Append(calls, NewCall("call", name, args, "done", <<>>))
          /\ responses' = Respond(NextId, McpError("InvalidParams",
                                                  InvalidJinaMessage))
     ELSE /\ calls' = Append(calls, NewCall("call", name, args, "awaitPost1",
                                            <<Read1Request(args)>>))
          /\ UNCHANGED responses
  /\ UNCHANGED <<adapter, env, phase>>

Read1Completion(outcome) ==
  IF outcome.kind = "response"
  THEN ToolResult(<<TextBlock(outcome.data.s)>>, FALSE)
  ELSE IF outcome.error.isAxios
       THEN ErrorResult(JinaPrefix, outcome.error)
       ELSE Fault("Uncaught")

\* variant: the POST is issued again after an axios error
Read1Settles_Retry(id, outcome) ==
  /\ id \in Pending
  /\ calls[id].pc = "awaitPost1"
  /\ IF outcome.kind = "error" /\ outcome.error.isAxios
        /\ Len(calls[id].net) < 2
     THEN /\ calls' = [calls EXCEPT
                         ![id].seen = Append(@, outcome),
                         ![id].net = Append(@, Read1Request(calls[id].args))]
          /\ UNCHANGED responses
     ELSE /\ calls' = [calls EXCEPT ![id].pc = "done",
                                    ![id].seen = Append(@, outcome)]
          /\ responses' = Respond(id, Read1Completion(outcome))
  /\ UNCHANGED <<adapter, env, phase>>

Read1Settles(id, outcome) ==
  /\ id \in Pending
  /\ calls[id].pc = "awaitPost1"
  /\ calls' = Finish(id, outcome)
  /\ responses' = Respond(id, Read1Completion(outcome))
  /\ UNCHANGED <<adapter, env, phase>>

----------------------------------------------------------------------------
(* Read adapter, second variant *)

\* truthiness of a value
\* variant: every string counts as present, the empty one too
Truthy_AnyString(v) ==
  \/ v.t = "string"
  \/ v.t = "number" /\ v.n # 0
  \/ v.t = "object"

Truthy(v) ==
  \/ v.t = "string" /\ v.s # <<>>
  \/ v.t = "number" /\ v.n # 0
  \/ v.t = "object"

\* a || b
Or(a, b) == IF Truthy(a) THEN a ELSE b

\* the process's working directory
Cwd == <<"/", "w">>

RECURSIVE CollapseSlashes(_)
CollapseSlashes(p) ==
  IF Len(p) < 2 THEN p
  ELSE IF p[1] = "/" /\ p[2] = "/" THEN CollapseSlashes(Tail(p))
  ELSE <<p[1]>> \o CollapseSlashes(Tail(p))

\* path.resolve(input) for inputs without '.' or '..' segments
Resolve(p) ==
  IF startsWith(p, <<"/">>) THEN CollapseSlashes(p)
  ELSE CollapseSlashes(Cwd \o <<"/">> \o p)

\* what the file system holds at a path when the handler looks:
\* nothing, a readable file, or an entry readFileSync fails on
FsStates == {"absent", "file", "unreadable"}

FileBase64 == <<"J", "V", "B", "E">>

\* a file-system call and how it ended: "true", "false", "data" or "throws"
FsOp(op, path, result) == [op |-> op, path |-> path, result |-> result]

IsUrl(input) == startsWith(input, HttpScheme) \/ startsWith(input, HttpsScheme)

FetchRequest(input) ==
  NetRequest("GET", input, <<>>, 0, Undefined, Undefined, Undefined)

\* the body of the POST: chosen by isPDF
Read2Request(isPDF, input, textContent) ==
  IF isPDF
  THEN NetRequest("POST", JinaReaderUrl, <<>>, 0, Str(LocalPdfUrl), Undefined,
                  Str(FileBase64))
  ELSE NetRequest("POST", JinaReaderUrl, <<>>, 0, Str(input),
                  Str(textContent), Undefined)

\* variant: a missing file is reported by throwing
FileNotFoundResult_Thrown(path) == Fault("Uncaught")

FileNotFoundResult(path) ==
  ToolResult(<<TextBlock(FileNotFoundPrefix \o path)>>, TRUE)

\* JSON.stringify(errorResponse, null, 2)
InvalidFormatText(receivedType, status) ==
  <<"{", "\n", " ", " ", "\"", "m", "e", "s", "s", "a", "g", "e", "\"", ":", " ", "\"">> \o InvalidFormatMessage
    \o <<"\"", ",", "\n", " ", " ", "\"", "d", "e", "t", "a", "i", "l", "s", "\"", ":", " ", "{", "\n", " ", " ", " ", " ", "\"", "r", "e", "c", "e", "i", "v", "e", "d", "T", "y", "p", "e", "\"", ":", " ", "\"">> \o receivedType
    \o <<"\"", ",", "\n", " ", " ", " ", " ", "\"", "s", "t", "a", "t", "u", "s", "C", "o", "d", "e", "\"", ":", " ">> \o status
    \o <<"\n", " ", " ", "}", "\n", "}">>

TypeName(ty) ==
  IF ty = "string" THEN <<"s", "t", "r", "i", "n", "g">>
  ELSE <<"o", "b", "j", "e", "c", "t">>

\* the handler up to its first await, or to its return or throw
CallToolRead2(name, args, fs) ==
  /\ CanReceive
  /\ adapter = "read2"
  /\ IF IsUnknownTool(adapter, name)
     THEN /\ calls' = Append(calls, NewCall("call", name, args, "done", <<>>))
          /\ responses' = Respond(NextId, McpError("MethodNotFound",
                                                  UnknownToolMessage(name)))
     ELSE IF ~isValidJinaArgs_v2(args)
     THEN /\ calls' = Append(calls, NewCall("call", name, args, "done", <<>>))
          /\ responses' = Respond(NextId, McpError("InvalidParams",
                                                  InvalidJinaMessage))
     ELSE IF IsUrl(args.input.s)
     THEN /\ calls' = Append(calls, NewCall("call", name, args, "awaitFetch",
                                            <<FetchRequest(args.input.s)>>))
          /\ UNCHANGED responses
     ELSE LET pdfPath == Resolve(args.input.s)
              missing == FsOp("existsSync", pdfPath, "false")
              exists  == FsOp("existsSync", pdfPath, "true")
              read    == FsOp("readFileSync", pdfPath, "data")
              failed  == FsOp("readFileSync", pdfPath, "throws")
              base    == NewCall("call", name, args, "done", <<>>)
          IN IF fs = "absent"
             THEN /\ calls' = Append(calls, [base EXCEPT !.fsOps = <<missing>>])
                  /\ responses' = Respond(NextId, FileNotFoundResult(pdfPath))
             ELSE IF fs = "unreadable"
             THEN /\ calls' = Append(calls,
                                 [base EXCEPT !.fsOps = <<exists, failed>>,
                                              !.isPDF = TRUE])
                  /\ responses' = Respond(NextId, Fault("Uncaught"))
             ELSE /\ calls' = Append(calls,
                                 [base EXCEPT !.fsOps = <<exists, read, read>>,
                                              !.isPDF = TRUE,
                                              !.pc = "awaitPost2",
                                              !.net = <<Read2Request(TRUE,
                                                         args.input.s, <<>>)>>])
                  /\ UNCHANGED responses
  /\ UNCHANGED <<adapter, env, phase>>

FetchedPdf ==
  [NoOutcome EXCEPT !.contentType = Str(PdfContentType),
                    !.data = Str(FileBase64), !.dataType = "object"]

FetchedPage ==
  [NoOutcome EXCEPT !.contentType = Undefined, !.data = Str(Page),
                    !.dataType = "object"]

FetchOutcomes ==
  {FetchedPdf, FetchedPage, Unreachable, Rejected(OtherError)}

\* the outcomes explored for the GET of the input: all of them for the
\* https URL, a page and a rejection for the http URL
FetchOutcomesFor(args) ==
  IF args.input = Str(UrlHttps) THEN FetchOutcomes
  ELSE {FetchedPage, Unreachable}

\* axios.get(input) has settled
FetchSettles(id, outcome) ==
  /\ id \in Pending
  /\ calls[id].pc = "awaitFetch"
  /\ LET c == calls[id]
     IN IF outcome.kind = "response"
        THEN IF outcome.contentType = Str(PdfContentType)
             THEN /\ calls' = [calls EXCEPT ![id].pc = "awaitPdf",
                                            ![id].isPDF = TRUE,
                                            ![id].seen = Append(@, outcome)]
                  /\ UNCHANGED responses
             ELSE /\ calls' =
                       [calls EXCEPT
                          ![id].pc = "awaitPost2",
                          ![id].textContent = outcome.data.s,
                          ![id].seen = Append(@, outcome),
                          ![id].net = Append(@, Read2Request(FALSE,
                                         c.args.input.s, outcome.data.s))]
                  /\ UNCHANGED responses
        ELSE /\ calls' = Finish(id, outcome)
             /\ responses' =
                  Respond(id, IF outcome.error.isAxios
                              THEN ErrorResult(JinaPrefix, outcome.error)
                              ELSE Fault("Uncaught"))
  /\ UNCHANGED <<adapter, env, phase>>

\* require('pdf-parse')(pdfBuffer) fulfils with the text, or fails (a
\* synchronous throw of the require call included) with a non-axios error
PdfOutcomes ==
  { [NoOutcome EXCEPT !.data = Str(Page), !.dataType = "object"],
    Rejected(OtherError) }

PdfSettles(id, outcome, fs) ==
  /\ id \in Pending
  /\ calls[id].pc = "awaitPdf"
  /\ LET c    == calls[id]
         read == FsOp("readFileSync", Resolve(c.args.input.s),
                      IF fs = "file" THEN "data" ELSE "throws")
     IN IF outcome.kind = "response" /\ fs = "file"
        THEN /\ calls' =
                  [calls EXCEPT
                     ![id].pc = "awaitPost2",
                     ![id].textContent = outcome.data.s,
                     ![id].seen = Append(@, outcome),
                     ![id].fsOps = Append(@, read),
                     ![id].net = Append(@, Read2Request(TRUE, c.args.input.s,
                                                        outcome.data.s))]
             /\ UNCHANGED responses
        ELSE IF outcome.kind = "response"
        THEN /\ calls' = [calls EXCEPT ![id].pc = "done",
                                       ![id].textContent = outcome.data.s,
                                       ![id].seen = Append(@, outcome),
                                       ![id].fsOps = Append(@, read)]
             /\ responses' = Respond(id, Fault("Uncaught"))
        ELSE /\ calls' = Finish(id, outcome)
             /\ responses' = Respond(id, Fault("Uncaught"))
  /\ UNCHANGED <<adapter, env, phase>>

\* POST https://r.jina.ai/ fulfilled with a body holding data.content,
\* content, both or neither (second variant)
Read2Outcomes ==
  {[NoOutcome EXCEPT !.nested = c[1], !.flat = c[2]] :
      c \in { <<Undefined, Undefined>>, <<Str(Page), Undefined>>,
              <<Undefined, Str(Page)>>, <<Str(<<>>), Undefined>> }}
    \cup RejectedOutcomes

\* the outcomes explored for the POST: all of them for a page of the https
\* URL and for a local file, a fulfilled and a rejected sample otherwise
Read2OutcomesFor(call) ==
  IF call.args.input = Str(RelPath)
       \/ (call.args.input = Str(UrlHttps) /\ ~call.isPDF)
  THEN Read2Outcomes
  ELSE {[NoOutcome EXCEPT !.nested = Str(Page)], Unreachable}

\* variant: every caught error is wrapped, axios or not
Read2Completion_WrapAll(outcome) ==
  IF outcome.kind = "response"
  THEN LET content == Or(outcome.nested, outcome.flat)
       IN IF Truthy(content)
          THEN ToolResult(<<TextBlock(content.s)>>, FALSE)
          ELSE ToolResult(<<TextBlock(InvalidFormatText(
                              TypeName(outcome.dataType), outcome.status))>>,
                          TRUE)
  ELSE ErrorResult(JinaPrefix, outcome.error)

Read2Completion(outcome) ==
  IF outcome.kind = "response"
  THEN LET content == Or(outcome.nested, outcome.flat)
       IN IF Truthy(content)
          THEN ToolResult(<<TextBlock(content.s)>>, FALSE)
          ELSE ToolResult(<<TextBlock(InvalidFormatText(
                              TypeName(outcome.dataType), outcome.status))>>,
                          TRUE)
  ELSE IF outcome.error.isAxios
       THEN ErrorResult(JinaPrefix, outcome.error)
       ELSE Fault("Uncaught")

Read2Settles(id, outcome) ==
  /\ id \in Pending
  /\ calls[id].pc = "awaitPost2"
  /\ calls' = Finish(id, outcome)
  /\ responses' = Respond(id, Read2Completion(outcome))
  /\ UNCHANGED <<adapter, env, phase>>

Next ==
  \/ ModuleLoad
  \/ ListTools
  \/ \E rq \in SearchRequests : CallToolSearch(rq[1], rq[2])
  \/ \E id \in Pending :
       \E o \in SearchOutcomesFor(calls[id].args) : SearchSettles(id, o)
  \/ \E rq \in ReadRequests : CallToolRead1(rq[1], rq[2])
  \/ \E id \in Pending :
       \E o \in Read1OutcomesFor(calls[id].args) : Read1Settles(id, o)
  \/ \E rq \in ReadRequests, fs \in FsStates : CallToolRead2(rq[1], rq[2], fs)
  \/ \E id \in Pending :
       \E o \in FetchOutcomesFor(calls[id].args) : FetchSettles(id, o)
  \/ \E id \in Pending, o \in PdfOutcomes, fs \in FsStates : PdfSettles(id, o, fs)
  \/ \E id \in Pending :
       \E o \in Read2OutcomesFor(calls[id]) : Read2Settles(id, o)

Spec == Init /\ [][Next]_vars

----------------------------------------------------------------------------
(* Properties *)

CallIds == 1..Len(calls)

\* the responses produced for request i, in order
ResponsesOf(i) == SelectSeq(responses, LAMBDA e : e.id = i)

\* request i has ended with exactly the outcome r
EndedWith(i, r) ==
  /\ calls[i].pc = "done"
  /\ Len(ResponsesOf(i)) = 1
  /\ ResponsesOf(i)[1].r = r

\* request i has ended with exactly one outcome, a fault with this code
EndedWithFault(i, code) ==
  /\ calls[i].pc = "done"
  /\ Len(ResponsesOf(i)) = 1
  /\ ResponsesOf(i)[1].r.tag = "fault"
  /\ ResponsesOf(i)[1].r.code = code
  /\ ResponsesOf(i)[1].r.content = <<>>

\* the name of request i is not the tool this server registers
NotRegistered(i) ==
  \/ adapter = "search" /\ calls[i].name # "search"
  \/ adapter \in {"read1", "read2"} /\ calls[i].name # "process"

\* C1: a CallTool request whose tool name is not the server's registered
\* tool fails with the protocol-level MethodNotFound error, not with a
\* result, and makes no upstream HTTP request, whatever its arguments are.
C1_UnknownToolIsMethodNotFound ==
  \A i \in CallIds :
     calls[i].kind = "call" /\ NotRegistered(i)
       => /\ EndedWithFault(i, "MethodNotFound")
          /\ calls[i].net = <<>>
          /\ calls[i].fsOps = <<>>

\* an unknown tool name was called with arguments that its adapter accepts
C1_Witness ==
  \E i \in CallIds :
     /\ calls[i].kind = "call" /\ NotRegistered(i)
     /\ \/ adapter = "search" /\ calls[i].args = WithQuery(Num(1))
        \/ adapter = "read2" /\ calls[i].args = ReadArgs(Str(Read), Str(UrlHttps))
     /\ EndedWithFault(i, "MethodNotFound")

\* the arguments of request i miss a required field, give it the wrong
\* primitive kind, or are not a non-null object
BadArguments(i) ==
  LET args == calls[i].args
  IN \/ args.kind # "object"
     \/ adapter = "search" /\ args.query.t # "string"
     \/ adapter \in {"read1", "read2"}
          /\ (args.type # Str(Read) \/ args.input.t # "string")

\* C2: a CallTool request to the registered tool whose arguments miss a
\* required field, give it the wrong kind or are not a non-null object
\* fails with the protocol-level InvalidParams error and never makes the
\* upstream call.
C2_BadArgumentsAreInvalidParams ==
  \A i \in CallIds :
     calls[i].kind = "call" /\ ~NotRegistered(i) /\ BadArguments(i)
       => /\ EndedWithFault(i, "InvalidParams")
          /\ calls[i].net = <<>>
          /\ calls[i].fsOps = <<>>

\* the search tool was called without its query, and the read tool
\* without its input
C2_Witness ==
  \E i \in CallIds :
     /\ calls[i].kind = "call" /\ ~NotRegistered(i)
     /\ \/ adapter = "search" /\ calls[i].args = Obj(NoProps)
        \/ adapter = "read1" /\ calls[i].args = ReadArgs(Str(Read), Undefined)
     /\ EndedWithFault(i, "InvalidParams")

\* request i is a search call with a string query and a numeric count
SearchWithCount(i) ==
  /\ adapter = "search"
  /\ calls[i].kind = "call" /\ calls[i].name = "search"
  /\ calls[i].args.kind = "object"
  /\ calls[i].args.query.t = "string"
  /\ calls[i].args.count.t = "number"

\* C3: a search call whose count is below the declared minimum 1 or above
\* the declared maximum 10 is rejected with InvalidParams and makes no
\* upstream call; count exactly 1 and exactly 10 are accepted.
C3_CountRangeIsEnforced ==
  \A i \in CallIds :
     SearchWithCount(i)
       => IF calls[i].args.count.n < CountMinimum
             \/ calls[i].args.count.n > CountMaximum
          THEN EndedWithFault(i, "InvalidParams") /\ calls[i].net = <<>>
          ELSE Len(calls[i].net) = 1

\* request i is a CallTool request
IsCall(i) == calls[i].kind = "call"

\* the last awaited call of request i has settled as o
LastSeen(i, o) ==
  calls[i].seen # <<>> /\ calls[i].seen[Len(calls[i].seen)] = o

\* the handler of request i has ended on a rejected upstream call whose
\* error is an axios error e
FailedWithAxios(i, e) ==
  /\ IsCall(i) /\ calls[i].pc = "done"
  /\ e.isAxios
  /\ LastSeen(i, Rejected(e))

\* request i has ended with one result that is marked isError and holds
\* exactly one text block, whose text contains msg
ErrorResultWith(i, msg) ==
  /\ calls[i].pc = "done"
  /\ Len(ResponsesOf(i)) = 1
  /\ LET r == ResponsesOf(i)[1].r
     IN /\ r.tag = "result"
        /\ r.isError
        /\ Len(r.content) = 1
        /\ r.content[1].type = "text"
        /\ includes(r.content[1].text, msg)

ErrorSamples == AxiosErrors \cup {OtherError}

\* C4 as stated: when the upstream call fails with an axios error, the
\* handler returns a result with isError: true and exactly one text block
\* that contains the error's message.
C4_TextHoldsErrorMessage ==
  \A i \in CallIds : \A e \in ErrorSamples :
     FailedWithAxios(i, e) => ErrorResultWith(i, e.message)

\* the message the catch block reports: the response body's message unless
\* that is null or undefined
ReportedMessage(e) ==
  IF e.hasResponse /\ e.hasData /\ e.dataMessage.t = "string"
  THEN e.dataMessage.s
  ELSE e.message

\* C4 (amended): when the upstream call fails with an axios error, the
\* handler throws nothing: it returns a result with isError: true and
\* exactly one text block, which contains the response body's message when
\* the error carries one that is neither null nor undefined, and the
\* error's own message otherwise.
C4_TextHoldsReportedMessage ==
  \A i \in CallIds : \A e \in ErrorSamples :
     FailedWithAxios(i, e) => ErrorResultWith(i, ReportedMessage(e))

\* an upstream call failed with an axios error that carries a response
\* message, and one failed with an axios error without a response
C4_Witness ==
  /\ \E i \in CallIds :
        /\ FailedWithAxios(i, AxiosError(TRUE, Str(UpstreamMessage)))
        /\ ErrorResultWith(i, UpstreamMessage)
  /\ \E i \in CallIds :
        /\ FailedWithAxios(i, AxiosError(FALSE, Undefined))
        /\ ErrorResultWith(i, TransportMessage)

\* the handler of request i has ended on an exception that is not an axios
\* error: a rejection with another error, a search response without
\* web.results, or a file read that threw
Defect(i) ==
  /\ IsCall(i) /\ calls[i].pc = "done"
  /\ \/ LastSeen(i, Rejected(OtherError))
     \/ adapter = "search" /\ LastSeen(i, NoOutcome)
     \/ /\ calls[i].fsOps # <<>>
        /\ calls[i].fsOps[Len(calls[i].fsOps)].result = "throws"

\* request i has got a result marked isError
HasErrorResult(i) ==
  \E k \in 1..Len(responses) :
     responses[k].id = i /\ responses[k].r.tag = "result"
       /\ responses[k].r.isError

\* C5, first half: an exception during invocation that is not an upstream
\* transport error leaves the handler as a fault and is never wrapped
DefectsPropagate ==
  \A i \in CallIds : Defect(i) => EndedWith(i, Fault("Uncaught"))

\* C5 as stated: non-transport exceptions propagate, and an isError result
\* is produced only for an upstream transport error.
C5_ErrorResultOnlyForTransportError ==
  /\ DefectsPropagate
  /\ \A i \in CallIds :
        HasErrorResult(i) => \E e \in AxiosErrors : FailedWithAxios(i, e)

\* the second read variant found no file at the path of request i
FileMissing(i) ==
  /\ adapter = "read2"
  /\ calls[i].net = <<>>
  /\ Len(calls[i].fsOps) = 1
  /\ calls[i].fsOps[1].op = "existsSync" /\ calls[i].fsOps[1].result = "false"

\* the POST of the second read variant was answered without content
NoContent(i) ==
  /\ adapter = "read2"
  /\ calls[i].net # <<>>
  /\ calls[i].net[Len(calls[i].net)].method = "POST"
  /\ \E o \in Read2Outcomes :
        /\ LastSeen(i, o)
        /\ o.kind = "response"
        /\ ~Truthy(o.nested) /\ ~Truthy(o.flat)

\* C5 (amended): non-transport exceptions propagate as faults and are never
\* wrapped; an isError result is produced only for an upstream transport
\* error or, in the second read variant, for a local path that does not
\* exist or an upstream response without content.
C5_ErrorResultCauses ==
  /\ DefectsPropagate
  /\ \A i \in CallIds :
        HasErrorResult(i)
          => \/ \E e \in AxiosErrors : FailedWithAxios(i, e)
             \/ FileMissing(i)
             \/ NoContent(i)

\* the second read variant threw on a file read in one request and
\* rejected the POST with a non-axios error in another
C5_Witness ==
  /\ adapter = "read2"
  /\ \E i \in CallIds :
        /\ Defect(i) /\ calls[i].fsOps # <<>>
        /\ EndedWith(i, Fault("Uncaught"))
  /\ \E i \in CallIds :
        /\ Defect(i) /\ calls[i].net # <<>>
        /\ calls[i].net[Len(calls[i].net)].method = "POST"
        /\ LastSeen(i, Rejected(OtherError))
        /\ EndedWith(i, Fault("Uncaught"))

\* request i passed the name check and the argument validation
Validated(i) ==
  /\ IsCall(i)
  /\ \A k \in 1..Len(responses) :
        responses[k].id = i
          => ~(responses[k].r.tag = "fault"
                 /\ responses[k].r.code \in {"MethodNotFound",
                                             "InvalidParams"})

\* C6 as stated: every CallTool invocation that passes the name check and
\* the argument validation performs exactly one outbound network request
\* before it returns, in every adapter and for every input.
C6_ExactlyOneRequest ==
  \A i \in CallIds :
     Validated(i) /\ calls[i].pc = "done" => Len(calls[i].net) = 1

\* every file-system call of request i succeeded
FileRead(i) ==
  \A k \in 1..Len(calls[i].fsOps) :
     calls[i].fsOps[k].result \in {"true", "data"}

\* C6 (amended): a validated invocation of the search adapter and of the
\* first read variant performs exactly one outbound request.  In the second
\* read variant a URL input performs one GET of that URL, followed by at
\* most one POST; a local-path input performs no request when the file is
\* missing or unreadable and exactly one POST otherwise.  In every adapter
\* a rejected request ends the handler: nothing is sent after a failure.
C6_RequestsPerInvocation ==
  \A i \in CallIds :
     Validated(i)
       => LET c == calls[i]
          IN /\ adapter \in {"search", "read1"} => Len(c.net) = 1
             /\ adapter = "read2" /\ IsUrl(c.args.input.s)
                  => /\ Len(c.net) \in {1, 2}
                     /\ c.net[1] = FetchRequest(c.args.input.s)
                     /\ Len(c.net) = 2 => c.net[2].method = "POST"
             /\ adapter = "read2" /\ ~IsUrl(c.args.input.s)
                  => /\ Len(c.net) = IF FileRead(i) THEN 1 ELSE 0
                     /\ \A k \in 1..Len(c.net) : c.net[k].method = "POST"
             /\ \A k \in 1..Len(c.seen) :
                   c.seen[k].kind = "error"
                     => k = Len(c.seen) /\ c.pc = "done"
                          /\ Len(c.net) <= Len(c.seen)

\* the second read variant ended one call after a GET and a POST, and
\* another after finding no file, without any request
C6_Witness ==
  /\ adapter = "read2"
  /\ \E i \in CallIds :
        Validated(i) /\ calls[i].pc = "done" /\ Len(calls[i].net) = 2
  /\ \E i \in CallIds :
        Validated(i) /\ calls[i].pc = "done" /\ FileMissing(i)

\* the content of a result is a non-empty sequence of text blocks
TextBlocks(content) ==
  /\ content # <<>>
  /\ \A k \in 1..Len(content) : content[k].type = "text"

\* C7 as stated: every dispatched CallTool request produces exactly one
\* ToolResult, for every request and every upstream outcome.
C7_ExactlyOneToolResult ==
  \A i \in CallIds :
     IsCall(i) /\ calls[i].pc = "done"
       => /\ Len(ResponsesOf(i)) = 1
          /\ ResponsesOf(i)[1].r.tag = "result"
          /\ TextBlocks(ResponsesOf(i)[1].r.content)

\* C7 (amended): every dispatched CallTool request produces exactly one
\* outcome, none while its handler is suspended and one once it has ended:
\* either a ToolResult (a sequence of text blocks, isError true on the
\* error variant) or a protocol-level fault, never both and never two.
C7_ExactlyOneOutcome ==
  \A i \in CallIds :
     IsCall(i)
       => /\ Len(ResponsesOf(i)) = IF calls[i].pc = "done" THEN 1 ELSE 0
          /\ \A k \in 1..Len(ResponsesOf(i)) :
                LET r == ResponsesOf(i)[k].r
                IN \/ r.tag = "result" /\ TextBlocks(r.content)
                   \/ r.tag = "fault" /\ r.content = <<>> /\ ~r.isError
                        /\ r.code \in {"MethodNotFound", "InvalidParams",
                                       "Uncaught"}

\* one request has ended with a result and another with a fault
C7_Witness ==
  /\ \E i \in CallIds :
        /\ IsCall(i) /\ calls[i].seen # <<>>
        /\ Len(ResponsesOf(i)) = 1 /\ ResponsesOf(i)[1].r.tag = "result"
  /\ \E i \in CallIds :
        /\ IsCall(i)
        /\ Len(ResponsesOf(i)) = 1 /\ ResponsesOf(i)[1].r.tag = "fault"

QuotePositions(text) ==
  SelectSeq([k \in 1..Len(text) |-> k], LAMBDA k : text[k] = "\"")

\* the strings between successive pairs of double quotes of text, in order
QuotedStrings(text) ==
  LET q == QuotePositions(text)
  IN [k \in 1..(Len(q) \div 2) |-> SubSeq(text, q[2 * k - 1] + 1, q[2 * k] - 1)]

\* how often ch occurs in text
Count(text, ch) == Cardinality({k \in 1..Len(text) : text[k] = ch})

\* the keys and values a serialized array of {title, url, description}
\* records of the items holds, in order
RECURSIVE ExpectedStrings(_)
ExpectedStrings(items) ==
  IF items = <<>> THEN <<>>
  ELSE LET it == Head(items)
           kv(key, v) == IF v.t = "string" THEN <<key, v.s>> ELSE <<>>
       IN kv(<<"t", "i", "t", "l", "e">>, it.title)
            \o kv(<<"u", "r", "l">>, it.url)
            \o kv(<<"d", "e", "s", "c", "r", "i", "p", "t", "i", "o", "n">>,
                  it.description)
            \o ExpectedStrings(Tail(items))

\* the search GET of request i was fulfilled with the result items l
SearchSucceeded(i, l) ==
  /\ adapter = "search"
  /\ IsCall(i) /\ calls[i].pc = "done"
  /\ LastSeen(i, [NoOutcome EXCEPT !.hasResults = TRUE, !.items = l])

\* C9: when the search upstream call succeeds with n result items, the
\* result has no isError and exactly one text block, which holds the
\* serialized array of exactly n records with only the title, url and
\* description of the items, in the upstream's order.
C9_SearchResultSerialized ==
  \A i \in CallIds : \A l \in ItemLists :
     SearchSucceeded(i, l)
       => /\ Len(ResponsesOf(i)) = 1
          /\ LET r == ResponsesOf(i)[1].r
             IN /\ r.tag = "result"
                /\ ~r.isError
                /\ Len(r.content) = 1
                /\ r.content[1].type = "text"
                /\ Head(r.content[1].text) = "["
                /\ r.content[1].text[Len(r.content[1].text)] = "]"
                /\ Count(r.content[1].text, "{") = Len(l)
                /\ Count(r.content[1].text, "}") = Len(l)
                /\ QuotedStrings(r.content[1].text) = ExpectedStrings(l)

\* a search was answered with three items and has returned its result
C9_Witness ==
  \E i \in CallIds :
     /\ SearchSucceeded(i, <<ItemB, ItemC, ItemA>>)
     /\ Len(ResponsesOf(i)) = 1
     /\ ResponsesOf(i)[1].r.tag = "result"

\* the names of the static registry, in registration order
RegistryNames == IF adapter = "search" THEN <<"search">> ELSE <<"process">>

NamesOf(tools) == [k \in 1..Len(tools) |-> tools[k].name]

\* request i is a ListTools request answered with the registry
ListedRegistry(i) ==
  /\ calls[i].pc = "done"
  /\ calls[i].net = <<>> /\ calls[i].fsOps = <<>>
  /\ Len(ResponsesOf(i)) = 1
  /\ ResponsesOf(i)[1].r.tag = "tools"
  /\ NamesOf(ResponsesOf(i)[1].r.tools) = RegistryNames

\* C10: ListTools always succeeds and returns the tool descriptors of the
\* static registry, same length and names in registration order, whatever
\* requests came before it; it makes no upstream call and changes nothing
\* of the requests handled before or of the server.
C10_ListToolsIsStatic ==
  /\ [](\A i \in CallIds : calls[i].kind = "list" => ListedRegistry(i))
  /\ [][ Len(calls') = Len(calls) + 1 /\ calls'[Len(calls')].kind = "list"
           => /\ SubSeq(calls', 1, Len(calls)) = calls
              /\ SubSeq(responses', 1, Len(responses)) = responses
              /\ Len(responses') = Len(responses) + 1
              /\ <<adapter, env, phase>>' = <<adapter, env, phase>>
       ]_vars

\* ListTools was answered after a call that failed upstream, and after a
\* call that was rejected
C10_Witness ==
  /\ Len(calls) = 2 /\ Len(responses) = 2
  /\ IsCall(1) /\ calls[2].kind = "list"
  /\ responses[1].id = 1 /\ responses[1].r.tag \in {"fault", "result"}
  /\ calls[1].seen # <<>>
  /\ ListedRegistry(2)

\* request i is a search call that passed the name check and the validation
ValidSearch(i) ==
  /\ adapter = "search"
  /\ IsCall(i) /\ calls[i].name = "search"
  /\ calls[i].args.kind = "object"
  /\ calls[i].args.query.t = "string"
  /\ calls[i].args.count.t \in {"undefined", "number"}

\* C11: for a valid search call the count sent upstream is 5 when the
\* arguments hold no count and the caller's count unchanged when they do,
\* and the query sent upstream is the caller's query unchanged.
C11_CountDefaultsToFive ==
  \A i \in CallIds :
     ValidSearch(i)
       => /\ Len(calls[i].net) = 1
          /\ calls[i].net[1].method = "GET"
          /\ calls[i].net[1].q = calls[i].args.query.s
          /\ calls[i].net[1].count =
               IF calls[i].args.count.t = "undefined" THEN 5
               ELSE calls[i].args.count.n

\* one search was sent without a count and one with the count 42
C11_Witness ==
  /\ \E i \in CallIds :
        /\ ValidSearch(i) /\ calls[i].args = WithQuery(Undefined)
        /\ calls[i].net # <<>> /\ calls[i].net[1].count = 5
  /\ \E i \in CallIds :
        /\ ValidSearch(i) /\ calls[i].args = WithQuery(Num(42))
        /\ calls[i].net # <<>> /\ calls[i].net[1].count = 42

\* the names of the parameters of request i that are absent though
\* required, of the wrong kind, or out of their declared range
OffendingParameters(i) ==
  LET args == calls[i].args
  IN IF adapter = "search"
     THEN {p \in {<<"q", "u", "e", "r", "y">>} : args.query.t # "string"}
            \cup {p \in {<<"c", "o", "u", "n", "t">>} :
                    \/ args.count.t \notin {"undefined", "number"}
                    \/ args.count.t = "number"
                         /\ (args.count.n < 1 \/ args.count.n > 10)}
     ELSE {p \in {<<"t", "y", "p", "e">>} : args.type # Str(Read)}
            \cup {p \in {<<"i", "n", "p", "u", "t">>} : args.input.t # "string"}

\* C12: an InvalidParams failure identifies the offending parameter: a
\* call to the registered tool with an absent, mistyped or out-of-range
\* parameter fails with InvalidParams and the error names that parameter.
C12_InvalidParamsNamesParameter ==
  \A i \in CallIds :
     /\ IsCall(i) /\ ~NotRegistered(i)
     /\ calls[i].args.kind = "object"
     /\ OffendingParameters(i) # {}
     => /\ EndedWithFault(i, "InvalidParams")
        /\ \E p \in OffendingParameters(i) :
              includes(ResponsesOf(i)[1].r.message, p)

\* the API-key environment variable is absent or empty
NoApiKey == env.t = "undefined" \/ (env.t = "string" /\ env.s = <<>>)

\* C13: when the API key is absent or empty at startup the process fails
\* before a server is constructed or connected: no ListTools or CallTool
\* request is ever served and no upstream request is ever made.
C13_NoKeyNoService ==
  NoApiKey
    => /\ phase \in {"load", "crashed"}
       /\ calls = <<>>
       /\ responses = <<>>

\* the process has failed at startup on an empty key
C13_Witness == env = Str(<<>>) /\ phase = "crashed"

\* what the environment answered to request i: how its awaited calls
\* settled and what its file-system calls returned
Answers(i) == <<calls[i].seen, calls[i].fsOps>>

Rejects(i) ==
  \/ adapter = "search" /\ ~isValidSearchArgs(calls[i].args)
  \/ adapter = "read1" /\ ~isValidJinaArgs_v1(calls[i].args)
  \/ adapter = "read2" /\ ~isValidJinaArgs_v2(calls[i].args)

\* a response to request i is a fault with this code
FaultedWith(i, code) ==
  \E k \in 1..Len(responses) :
     /\ responses[k].id = i
     /\ responses[k].r.tag = "fault"
     /\ responses[k].r.code = code

\* C15: the tool-name check precedes the argument validation: a request
\* with an unknown tool name and invalid arguments fails with
\* MethodNotFound and never with InvalidParams, and InvalidParams is only
\* produced for a request whose tool name is the registered one.
C15_NameCheckPrecedesValidation ==
  \A i \in CallIds :
     IsCall(i)
       => /\ NotRegistered(i) /\ Rejects(i)
               => /\ FaultedWith(i, "MethodNotFound")
                  /\ ~FaultedWith(i, "InvalidParams")
          /\ FaultedWith(i, "InvalidParams") => ~NotRegistered(i)

\* the search server was called under an unknown name with an empty object
C15_Witness ==
  \E i \in CallIds :
     /\ adapter = "search"
     /\ IsCall(i) /\ NotRegistered(i)
     /\ calls[i].args = Obj(NoProps)
     /\ FaultedWith(i, "MethodNotFound")

\* request i calls the second read variant's tool with type 'read' and a
\* string input
ReadsString(i) ==
  /\ adapter = "read2"
  /\ IsCall(i) /\ calls[i].name = "process"
  /\ calls[i].args.kind = "object"
  /\ calls[i].args.type = Str(<<"r", "e", "a", "d">>)
  /\ calls[i].args.input.t = "string"

\* the string is in the domain the second variant declares for input
InDomain(s) ==
  \/ startsWith(s, <<"h", "t", "t", "p", ":", "/", "/">>)
  \/ startsWith(s, <<"h", "t", "t", "p", "s", ":", "/", "/">>)
  \/ ~startsWith(s, <<"h", "t", "t", "p">>)

\* C16: the second read variant accepts an input iff it starts with
\* 'http://' or 'https://' or does not start with 'http'; every other
\* input fails with InvalidParams before any network request and any file
\* access.
C16_InputDomainCheckedFirst ==
  \A i \in CallIds :
     ReadsString(i)
       => IF InDomain(calls[i].args.input.s)
          THEN ~FaultedWith(i, "InvalidParams")
          ELSE /\ EndedWithFault(i, "InvalidParams")
               /\ calls[i].net = <<>>
               /\ calls[i].fsOps = <<>>

\* an input that starts with 'http' but is no http(s) URL was rejected, and
\* a local path was accepted
C16_Witness ==
  /\ \E i \in CallIds :
        /\ ReadsString(i) /\ calls[i].args.input = Str(Httpx)
        /\ EndedWithFault(i, "InvalidParams")
  /\ \E i \in CallIds :
        /\ ReadsString(i) /\ calls[i].args.input = Str(RelPath)
        /\ calls[i].fsOps # <<>>

\* the adapter's fixed prefix of an upstream-error text
PrefixOf(a) ==
  IF a = "search"
  THEN <<"B", "r", "a", "v", "e", " ", "S", "e", "a", "r", "c", "h", " ", "A", "P", "I", " ", "e", "r", "r", "o", "r", ":", " ">>
  ELSE <<"J", "i", "n", "a", " ", "A", "I", " ", "A", "P", "I", " ", "e", "r", "r", "o", "r", ":", " ">>

\* the error carries a response body whose message is not null or undefined
HasUpstreamMessage(e) ==
  e.hasResponse /\ e.hasData /\ e.dataMessage.t \notin {"undefined", "null"}

\* request i has ended with one isError result of one text block with
\* exactly this text
ErrorResultIs(i, text) ==
  /\ calls[i].pc = "done"
  /\ Len(ResponsesOf(i)) = 1
  /\ LET r == ResponsesOf(i)[1].r
     IN /\ r.tag = "result"
        /\ r.isError
        /\ Len(r.content) = 1
        /\ r.content[1].text = text

\* C17: the text of an upstream-error result is the adapter's prefix
\* followed by the upstream's message when the error carries a response
\* body with a non-null message, an empty one included, and followed by the
\* transport error's message otherwise; nothing else is in the text.
C17_PrefixThenOneMessage ==
  \A i \in CallIds : \A e \in ErrorSamples :
     FailedWithAxios(i, e)
       => ErrorResultIs(i, PrefixOf(adapter)
                             \o (IF HasUpstreamMessage(e)
                                 THEN e.dataMessage.s
                                 ELSE e.message))

\* an upstream error with an empty message gave the bare prefix, and one
\* with a null message gave the prefix and the transport message
C17_Witness ==
  /\ \E i \in CallIds :
        /\ FailedWithAxios(i, AxiosError(TRUE, Str(<<>>)))
        /\ ErrorResultIs(i, PrefixOf(adapter))
  /\ \E i \in CallIds :
        /\ FailedWithAxios(i, AxiosError(TRUE, Null))
        /\ ErrorResultIs(i, PrefixOf(adapter) \o TransportMessage)

\* request i is a validated call of the second read variant whose input is
\* not an http(s) URL
LocalPathCall(i) ==
  /\ adapter = "read2"
  /\ Validated(i)
  /\ calls[i].args.kind = "object"
  /\ calls[i].args.input.t = "string"
  /\ ~IsUrl(calls[i].args.input.s)

\* existsSync(pdfPath) returned this for request i
ExistsSyncGave(i, result) ==
  /\ calls[i].fsOps # <<>>
  /\ calls[i].fsOps[1].op = "existsSync"
  /\ calls[i].fsOps[1].result = result

\* request i ended with an isError result of one file-not-found text block
\* and made no network request
FileNotFoundReported(i) ==
  /\ ErrorResultWith(i, <<"u6587", "u4EF6", "u672A", "u627E", "u5230">>)
  /\ calls[i].net = <<>>

\* request i issued the POST and no GET before it
PostedWithoutGet(i) ==
  /\ calls[i].net # <<>>
  /\ calls[i].net[1].method = "POST"
  /\ \A k \in 1..Len(calls[i].net) : calls[i].net[k].method # "GET"

\* C18 as stated: a local path that does not exist gives an isError result
\* with one file-not-found text block, no network request and no fault;
\* when the path exists, the upstream POST is made and no GET before it.
C18_LocalPathPostsWhenExists ==
  \A i \in CallIds :
     LocalPathCall(i)
       => /\ ExistsSyncGave(i, "false") => FileNotFoundReported(i)
          /\ ExistsSyncGave(i, "true") => PostedWithoutGet(i)

\* readFileSync returned the file's content for request i
ReadFileGave(i, result) ==
  /\ Len(calls[i].fsOps) >= 2
  /\ calls[i].fsOps[2].op = "readFileSync"
  /\ calls[i].fsOps[2].result = result

\* C18 (amended): a local path that does not exist gives an isError result
\* with one file-not-found text block, no network request and no fault;
\* when the path exists and the file can be read, the upstream POST is made
\* and no GET before it; when the path exists but reading it throws, the
\* exception propagates as a fault and no request is made.
C18_LocalPathPostsWhenRead ==
  \A i \in CallIds :
     LocalPathCall(i)
       => /\ ExistsSyncGave(i, "false") => FileNotFoundReported(i)
          /\ ExistsSyncGave(i, "true") /\ ReadFileGave(i, "data")
               => PostedWithoutGet(i)
          /\ ExistsSyncGave(i, "true") /\ ReadFileGave(i, "throws")
               => /\ EndedWithFault(i, "Uncaught")
                  /\ calls[i].net = <<>>

\* one local path was missing, one was read and posted, and one existed
\* but could not be read
C18_Witness ==
  /\ \E i \in CallIds :
        LocalPathCall(i) /\ ExistsSyncGave(i, "false")
          /\ FileNotFoundReported(i)
  /\ \E i \in CallIds :
        LocalPathCall(i) /\ ReadFileGave(i, "data") /\ PostedWithoutGet(i)

\* the value is absent, null or the empty string
Empty(v) == v.t \in {"undefined", "null"} \/ (v.t = "string" /\ v.s = <<>>)

\* the POST of request i completed with a response that has no content
CompletedWithoutContent(i) ==
  /\ calls[i].pc = "done"
  /\ calls[i].net # <<>>
  /\ calls[i].net[Len(calls[i].net)].method = "POST"
  /\ calls[i].seen # <<>>
  /\ LET o == calls[i].seen[Len(calls[i].seen)]
     IN o.kind = "response" /\ Empty(o.nested) /\ Empty(o.flat)

\* C19: in the second read variant a result without isError carries one
\* text block with non-empty text, and an upstream response without content
\* or with empty content gives an isError result that describes an invalid
\* response format.
C19_SuccessHasText ==
  adapter = "read2"
    => \A i \in CallIds :
          IsCall(i)
            => /\ \A k \in 1..Len(ResponsesOf(i)) :
                     LET r == ResponsesOf(i)[k].r
                     IN r.tag = "result" /\ ~r.isError
                          => /\ Len(r.content) = 1
                             /\ r.content[1].text # <<>>
               /\ CompletedWithoutContent(i)
                    => ErrorResultWith(i, InvalidFormatMessage)

\* an upstream response with an empty content was reported as an invalid
\* response format, and one with content was returned as text
C19_Witness ==
  /\ adapter = "read2"
  /\ \E i \in CallIds :
        /\ CompletedWithoutContent(i)
        /\ calls[i].seen[Len(calls[i].seen)].nested = Str(<<>>)
        /\ ErrorResultWith(i, InvalidFormatMessage)
  /\ \E i \in CallIds :
        /\ IsCall(i) /\ calls[i].pc = "done"
        /\ Len(ResponsesOf(i)) = 1
        /\ ResponsesOf(i)[1].r.tag = "result"
        /\ ~ResponsesOf(i)[1].r.isError

====
